---- MODULE Spec2Model ----
(***************************************************************************)
(* State machine of the gstt command (src/main.go): flag conversion in     *)
(* fromFlags, the file branch of main, and the stdin branch of main, in    *)
(* which the main goroutine copies os.Stdin into an io.Pipe whose read end *)
(* is handed to client.Stream running in a second goroutine.               *)
(*                                                                         *)
(* Flags that only select a value of the configuration (verbose, key,      *)
(* language, continuous, interim, user-agent) take no part in the control  *)
(* flow of main and are not represented.                                   *)
(***************************************************************************)
EXTENDS Integers, Sequences, FiniteSets, TLC

(***************************************************************************)
(* Bounds of the model.                                                    *)
(***************************************************************************)
\* Length of the chunk buffer bs; stands for the 1024 of make([]byte, 1024).
BufSize == 2
\* Number of stdin reads that return data in one run of Spec.
MaxReads == 2
\* Number of stdin reads that return data in one run of SpecFlags.
FlagReads == 1
\* Longest -max-alts / -pfilter string drawn in SpecFlags.
MaxStrLen == 2

\* Values of the bytes stdin delivers; 0 is kept for the zero bytes of a
\* freshly made buffer.
Byte == {1, 2}
\* Characters of the flag strings.
Chars == {"1", "2", "-", "+", "a"}
\* Sample rates a FLAC stream info block may declare.
SampleRates == {8000, 44100}

\* opts.DefaultSampleRate, the rate main passes for stdin input.
DefaultSampleRate == 16000

VARIABLES
    maxAlts,      \* flag -max-alts, a sequence of characters
    pFilter,      \* flag -pfilter, a sequence of characters
    filePath,     \* flag -file
    output,       \* flag -output
    pc,           \* position of the main goroutine
    options,      \* <<o>> once fromFlags() returned o, <<>> before
    f,            \* the parsed file, "nil" before goflac.ParseFile returned it
    sampleRate,   \* data.SampleRate of the parsed file, 0 before
    bs,           \* the chunk buffer, <<>> before it is made
    n,            \* byte count the last os.Stdin.Read returned
    err,          \* error the last os.Stdin.Read returned
    woff,         \* pw.Write in flight: index in bs of the next byte the
                  \* reader will take, 0 when no write is in flight
    pipe,         \* the io.Pipe: done channel closed, rerr, werr
    g,            \* position of the goroutine that calls c.Stream
    stream,       \* <<a>> once c.Stream was called with arguments a
    streamCalls,  \* number of calls of c.Stream
    streamSaw,    \* error a read of pr returned to Stream, "nil" if none
    panicVal,     \* value main panicked with, "nil" if none
    readsLeft,    \* stdin reads that may still return data
    fed,          \* history: the n bytes each stdin read returned, in order
    written,      \* history: the bytes handed to accepted pw.Write calls
    consumed      \* history: the bytes Stream read from pr

flags == <<maxAlts, pFilter, filePath, output>>
hist  == <<fed, written, consumed>>
vars  == <<maxAlts, pFilter, filePath, output, pc, options, f, sampleRate, bs,
           n, err, woff, pipe,
           g, stream, streamCalls, streamSaw, panicVal, readsLeft, fed,
           written, consumed>>

(***************************************************************************)
(* strconv.Atoi, as fromFlags uses it.  Strings are sequences of one-      *)
(* character strings.  Strings of 19 characters and more take Atoi's slow  *)
(* path (range errors); they lie beyond MaxStrLen.                         *)
(***************************************************************************)
Digits == {"0", "1", "2", "3", "4", "5", "6", "7", "8", "9"}

DigitVal(c) ==
    CASE c = "0" -> 0 [] c = "1" -> 1 [] c = "2" -> 2 [] c = "3" -> 3
      [] c = "4" -> 4 [] c = "5" -> 5 [] c = "6" -> 6 [] c = "7" -> 7
      [] c = "8" -> 8 [] c = "9" -> 9

\* The loop of Atoi's fast path: acc = acc*10 + int(ch), left to right; ok
\* turns FALSE at the first character that is no digit.
RECURSIVE AtoiLoop(_, _)
AtoiLoop(s, acc) ==
    IF s = <<>> THEN [ok |-> TRUE, num |-> acc]
    ELSE IF Head(s) \notin Digits THEN [ok |-> FALSE, num |-> 0]
    ELSE AtoiLoop(Tail(s), acc * 10 + DigitVal(Head(s)))

Atoi(s) ==
    IF Len(s) = 0 THEN [ok |-> FALSE, num |-> 0]
    ELSE LET signed == Head(s) \in {"-", "+"}
             digits == IF signed THEN Tail(s) ELSE s
             r      == AtoiLoop(digits, 0)
         IN  IF Len(digits) < 1 THEN [ok |-> FALSE, num |-> 0]
             ELSE IF ~r.ok THEN r
             ELSE IF Head(s) = "-" THEN [ok |-> TRUE, num |-> 0 - r.num]
             ELSE r

(***************************************************************************)
(* fromFlags: an empty flag is skipped; a flag Atoi rejects panics; the    *)
(* number Atoi returns is handed to the option setter as it is.            *)
(***************************************************************************)
\* The options a flag contributes: none when it is empty, else the one
\* built from the number Atoi returned.
NumOption(s) == IF s = <<>> THEN <<>> ELSE <<Atoi(s).num>>

\* Variant of OutputOption that tests for "pb" instead of "json".
OutputOption_TestsPb(out) ==
    IF out = "" THEN <<>>
    ELSE IF out = "pb" THEN <<"Binary">> ELSE <<"Text">>

\* The option the -output flag contributes: none when it is empty,
\* opts.Output(opts.Text) for "json", opts.Output(opts.Binary) otherwise.
OutputOption(out) ==
    IF out = "" THEN <<>>
    ELSE IF out = "json" THEN <<"Text">> ELSE <<"Binary">>

\* Variant of fromFlags that drops the error of Atoi (num, _ := ...) and
\* goes on with the number it returned.
fromFlags_ErrDropped(ma, pf, fp, out) ==
    [panic |-> FALSE,
     opts  |-> <<[filePath |-> fp, output |-> OutputOption(out),
                  maxAlts |-> NumOption(ma),
                  profanityFilter |-> NumOption(pf)]>>]

fromFlags(ma, pf, fp, out) ==
    IF ma # <<>> /\ ~Atoi(ma).ok THEN [panic |-> TRUE, opts |-> <<>>]
    ELSE IF pf # <<>> /\ ~Atoi(pf).ok THEN [panic |-> TRUE, opts |-> <<>>]
    ELSE [panic |-> FALSE,
          opts  |-> <<[filePath |-> fp, output |-> OutputOption(out),
                       maxAlts |-> NumOption(ma),
                       profanityFilter |-> NumOption(pf)]>>]

\* The encoding opts.Apply leaves in a configuration that no Output option
\* was applied to.
DefaultEncoding == "Binary"

\* The output encoding of the configuration o.
Encoding(o) == IF o.output = <<>> THEN DefaultEncoding ELSE o.output[1]

(***************************************************************************)
(* io.Pipe, as main uses it: one writer (main), one reader (Stream).       *)
(* rerr and werr are set once (onceError); done is closed by whichever     *)
(* side closes first.                                                      *)
(***************************************************************************)
NewPipe == [done |-> FALSE, rerr |-> "nil", werr |-> "nil"]

Store(cur, e) == IF cur = "nil" THEN e ELSE cur

\* pw.Close(): closeWrite(nil) stores io.EOF.
closeWrite(p) == [p EXCEPT !.werr = Store(@, "EOF"), !.done = TRUE]

\* pr.Close(): closeRead(nil) stores io.ErrClosedPipe.
closeRead(p) == [p EXCEPT !.rerr = Store(@, "ErrClosedPipe"), !.done = TRUE]

writeCloseError(p) ==
    IF p.werr = "nil" /\ p.rerr # "nil" THEN p.rerr ELSE "ErrClosedPipe"

readCloseError(p) ==
    IF p.rerr = "nil" /\ p.werr # "nil" THEN p.werr ELSE "ErrClosedPipe"

\* Variant of WriteArg that hands over the bytes the read returned, bs[:n].
WriteArg_FirstN(b, cnt) == SubSeq(b, 1, cnt)

\* The slice main hands to pw.Write after a read of cnt bytes into b.
WriteArg(b, cnt) == b

\* Variant of PipeCopy for a writer that does not advance its slice after a
\* partial read: every read takes from the start of the slice.
PipeCopy_NoAdvance(w, off, k) == SubSeq(w, 1, k)

\* The bytes one read of pr takes from an in-flight write whose next byte
\* is at index off of the slice w: k of them, k at least 1.
PipeCopy(w, off, k) == SubSeq(w, off, off + k - 1)

(***************************************************************************)
(* Positions of the main goroutine; the process ends with it.              *)
(***************************************************************************)
Terminal == {"done", "panicFlags", "panicWrite", "exitParse", "exitInfo",
             "exitStdin"}

Terminated == pc \in Terminal

\* Exit status of the process at a terminal position: 0 on return from
\* main, 1 on os.Exit(1), 2 on an uncaught panic.
ExitStatus ==
    CASE pc = "done" -> 0
      [] pc \in {"exitParse", "exitInfo", "exitStdin"} -> 1
      [] pc \in {"panicFlags", "panicWrite"} -> 2

(***************************************************************************)
(* Initial states.                                                         *)
(***************************************************************************)
OptionStrings == UNION {[1..len -> Chars] : len \in 0..MaxStrLen}

DefaultMaxAlts == <<"1">>
DefaultPFilter == <<"2">>

\* Flag values of Spec: the defaults, or one flag that is no number.
FlagSamples ==
    {<<DefaultMaxAlts, DefaultPFilter>>, <<<<"a">>, DefaultPFilter>>,
     <<DefaultMaxAlts, <<"a">>>>}

\* Flag values of SpecFlags: one of the two flags takes any string.
FlagStrings ==
    {<<s, DefaultPFilter>> : s \in OptionStrings}
        \cup {<<DefaultMaxAlts, s>> : s \in OptionStrings}

FilePaths == {"", "a.flac"}

DefaultOutput == ""

\* Values of the -output flag drawn in SpecOutput.
Outputs == {"", "json", "pb", "text", "JSON"}

InitWith(flagSet, reads) ==
    /\ \E fl \in flagSet : maxAlts = fl[1] /\ pFilter = fl[2]
    /\ filePath \in FilePaths
    /\ pc = "flags"
    /\ options = <<>>
    /\ f = "nil"
    /\ sampleRate = 0
    /\ bs = <<>>
    /\ n = 0
    /\ err = "nil"
    /\ woff = 0
    /\ pipe = NewPipe
    /\ g = "none"
    /\ stream = <<>>
    /\ streamCalls = 0
    /\ streamSaw = "nil"
    /\ panicVal = "nil"
    /\ readsLeft = reads
    /\ fed = <<>>
    /\ written = <<>>
    /\ consumed = <<>>

Init == InitWith(FlagSamples, MaxReads) /\ output = DefaultOutput

InitFlags == InitWith(FlagStrings, FlagReads) /\ output = DefaultOutput

InitOutput == InitWith(FlagSamples, FlagReads) /\ output \in Outputs

(***************************************************************************)
(* main, up to the choice of the input.                                    *)
(***************************************************************************)
\* options = fromFlags(), then the test filePath != "".
FromFlags ==
    /\ pc = "flags"
    /\ LET r == fromFlags(maxAlts, pFilter, filePath, output)
       IN  IF r.panic
           THEN /\ pc' = "panicFlags"
                /\ panicVal' = "strconv.ErrSyntax"
                /\ UNCHANGED options
           ELSE /\ options' = r.opts
                /\ pc' = IF filePath # "" THEN "parseFile" ELSE "pipe"
                /\ UNCHANGED panicVal
    /\ UNCHANGED <<flags, hist, f, sampleRate, bs, n, err, woff, pipe, g,
                   stream, streamCalls, streamSaw, readsLeft>>

(***************************************************************************)
(* main, input from a file.                                                *)
(***************************************************************************)
\* f, err := goflac.ParseFile(filePath); os.Exit(1) on an error.
ParseFile ==
    /\ pc = "parseFile"
    /\ \E ok \in BOOLEAN :
          IF ok
          THEN f' = "parsed" /\ pc' = "streamInfo"
          ELSE f' = "nil" /\ pc' = "exitParse"
    /\ UNCHANGED <<flags, hist, options, sampleRate, bs, n, err, woff, pipe,
                   g, stream, streamCalls, streamSaw, panicVal, readsLeft>>

\* Variant of GetStreamInfo that does not test the error: main goes on to
\* Stream with the zero value of data.SampleRate.
GetStreamInfo_ErrIgnored ==
    /\ pc = "streamInfo"
    /\ \E ok \in BOOLEAN :
          IF ok
          THEN \E r \in SampleRates : sampleRate' = r /\ pc' = "fileStream"
          ELSE pc' = "fileStream" /\ UNCHANGED sampleRate
    /\ UNCHANGED <<flags, hist, options, f, bs, n, err, woff, pipe, g, stream,
                   streamCalls, streamSaw, panicVal, readsLeft>>

\* data, err := f.GetStreamInfo(); os.Exit(1) on an error.
GetStreamInfo ==
    /\ pc = "streamInfo"
    /\ \E ok \in BOOLEAN :
          IF ok
          THEN \E r \in SampleRates : sampleRate' = r /\ pc' = "fileStream"
          ELSE pc' = "exitInfo" /\ UNCHANGED sampleRate
    /\ UNCHANGED <<flags, hist, options, f, bs, n, err, woff, pipe, g, stream,
                   streamCalls, streamSaw, panicVal, readsLeft>>

\* c.Stream(bytes.NewBuffer(f.Marshal()), data.SampleRate, options), and
\* the return from main that follows it.
FileStream ==
    /\ pc = "fileStream"
    /\ stream' = <<[body |-> "file", rate |-> sampleRate, opts |-> options[1]]>>
    /\ streamCalls' = streamCalls + 1
    /\ pc' = "done"
    /\ UNCHANGED <<flags, hist, options, f, sampleRate, bs, n, err, woff,
                   pipe, g, streamSaw, panicVal, readsLeft>>

(***************************************************************************)
(* main, input from stdin: the producer.                                   *)
(***************************************************************************)
\* bs := make([]byte, 1024); pr, pw := io.Pipe(); go func() {...}()
MakePipe ==
    /\ pc = "pipe"
    /\ bs' = [i \in 1..BufSize |-> 0]
    /\ pipe' = NewPipe
    /\ g' = "spawned"
    /\ pc' = "read"
    /\ UNCHANGED <<flags, hist, options, f, sampleRate, n, err, woff, stream,
                   streamCalls, streamSaw, panicVal, readsLeft>>

\* Variant of LoopBranch that tests for io.EOF before it tests n.
LoopBranch_EofFirst(cnt, e) ==
    IF e = "EOF" THEN "done"
    ELSE IF cnt > 0 THEN "callWrite"
    ELSE IF e # "nil" THEN "exitStdin"
    ELSE "read"

\* The branch of the loop on the results of the read: where main goes
\* after a read that returned cnt bytes and the error e.
LoopBranch(cnt, e) ==
    IF cnt > 0 THEN "callWrite"
    ELSE IF e = "EOF" THEN "done"
    ELSE IF e # "nil" THEN "exitStdin"
    ELSE "read"

\* n, err := os.Stdin.Read(bs) and the branch on n and err.  A read that
\* returns data overwrites the first n bytes of bs and leaves the rest; it
\* may return an error with the data, as io.Reader allows.  A read that
\* returns no data returns io.EOF or another error.
StdinRead ==
    /\ pc = "read"
    /\ \/ /\ readsLeft > 0
          /\ \E cnt \in 1..BufSize : \E d \in [1..cnt -> Byte] :
                /\ bs' = [i \in 1..BufSize |-> IF i <= cnt THEN d[i] ELSE bs[i]]
                /\ n' = cnt
                /\ fed' = fed \o d
          /\ err' \in {"nil", "EOF", "error"}
          /\ readsLeft' = readsLeft - 1
          /\ UNCHANGED <<written, consumed>>
       \/ /\ n' = 0
          /\ err' \in {"EOF", "error"}
          /\ UNCHANGED <<bs, readsLeft, hist>>
    /\ pc' = LoopBranch(n', err')
    /\ UNCHANGED <<flags, options, f, sampleRate, woff, pipe, g, stream,
                   streamCalls, streamSaw, panicVal>>

\* Variant of PwWriteEnter for a write that does not wait for the reader:
\* main goes back to reading stdin with the slice still in flight.
PwWriteEnter_NoWait ==
    /\ pc = "callWrite"
    /\ woff' = 1
    /\ written' = written \o WriteArg(bs, n)
    /\ pc' = "read"
    /\ UNCHANGED <<flags, fed, consumed, options, f, sampleRate, bs, n, err,
                   pipe, g, stream, streamCalls, streamSaw, panicVal,
                   readsLeft>>

\* pw.Write(bs), on entry: with done closed it returns the close error and
\* main panics; otherwise the slice is offered to the reader and main blocks.
PwWriteEnter ==
    /\ pc = "callWrite"
    /\ IF pipe.done
       THEN /\ pc' = "panicWrite"
            /\ panicVal' = writeCloseError(pipe)
            /\ UNCHANGED <<woff, written>>
       ELSE /\ woff' = 1
            /\ written' = written \o WriteArg(bs, n)
            /\ pc' = "inWrite"
            /\ UNCHANGED panicVal
    /\ UNCHANGED <<flags, fed, consumed, options, f, sampleRate, bs, n, err,
                   pipe, g, stream, streamCalls, streamSaw, readsLeft>>

\* pw.Write(bs), blocked in its select: done was closed, the write returns
\* the close error and main panics.
PwWriteAbort ==
    /\ pc = "inWrite"
    /\ pipe.done
    /\ pc' = "panicWrite"
    /\ panicVal' = writeCloseError(pipe)
    /\ UNCHANGED <<flags, hist, options, f, sampleRate, bs, n, err, woff,
                   pipe, g, stream, streamCalls, streamSaw, readsLeft>>

(***************************************************************************)
(* The goroutine: c.Stream(pr, opts.DefaultSampleRate, options) and the    *)
(* deferred pw.Close(), pr.Close().  Stream is seen from outside: it reads *)
(* pr any number of times and returns at any moment.                       *)
(***************************************************************************)
GoStream ==
    /\ ~Terminated
    /\ g = "spawned"
    /\ g' = "stream"
    /\ stream' = <<[body |-> "pr", rate |-> DefaultSampleRate,
                    opts |-> options[1]]>>
    /\ streamCalls' = streamCalls + 1
    /\ UNCHANGED <<flags, hist, pc, options, f, sampleRate, bs, n, err, woff,
                   pipe, streamSaw, panicVal, readsLeft>>

\* One pr.Read inside Stream.  With done closed it returns the close error.
\* Otherwise it blocks until a write is in flight, takes k bytes of it, and
\* the write returns to main once its slice is used up.
StreamRead ==
    /\ ~Terminated
    /\ g = "stream"
    /\ IF pipe.done
       THEN /\ streamSaw' = readCloseError(pipe)
            /\ UNCHANGED <<pc, woff, consumed>>
       ELSE /\ pc = "inWrite"
            /\ LET w == WriteArg(bs, n)
               IN  \E k \in 1..(Len(w) - woff + 1) :
                      /\ consumed' = consumed \o PipeCopy(w, woff, k)
                      /\ IF woff + k > Len(w)
                         THEN woff' = 0 /\ pc' = "read"
                         ELSE woff' = woff + k /\ pc' = pc
            /\ UNCHANGED streamSaw
    /\ UNCHANGED <<flags, fed, written, options, f, sampleRate, bs, n, err,
                   pipe, g, stream, streamCalls, panicVal, readsLeft>>

\* Variant of StreamReturn for a goroutine that calls Stream again when it
\* returned.
StreamReturn_Retry ==
    /\ ~Terminated
    /\ g = "stream"
    /\ g' = "spawned"
    /\ UNCHANGED <<flags, hist, pc, options, f, sampleRate, bs, n, err, woff,
                   pipe, stream, streamCalls, streamSaw, panicVal, readsLeft>>

\* Variant of StreamReturn for a goroutine without the two defers: it ends
\* when Stream returns and leaves the pipe open.
StreamReturn_NoDefers ==
    /\ ~Terminated
    /\ g = "stream"
    /\ g' = "end"
    /\ UNCHANGED <<flags, hist, pc, options, f, sampleRate, bs, n, err, woff,
                   pipe, stream, streamCalls, streamSaw, panicVal, readsLeft>>

StreamReturn ==
    /\ ~Terminated
    /\ g = "stream"
    /\ g' = "deferPw"
    /\ UNCHANGED <<flags, hist, pc, options, f, sampleRate, bs, n, err, woff,
                   pipe, stream, streamCalls, streamSaw, panicVal, readsLeft>>

\* defer pw.Close(): the later defer, run first.
DeferPwClose ==
    /\ ~Terminated
    /\ g = "deferPw"
    /\ pipe' = closeWrite(pipe)
    /\ g' = "deferPr"
    /\ UNCHANGED <<flags, hist, pc, options, f, sampleRate, bs, n, err, woff,
                   stream, streamCalls, streamSaw, panicVal, readsLeft>>

\* defer pr.Close()
DeferPrClose ==
    /\ ~Terminated
    /\ g = "deferPr"
    /\ pipe' = closeRead(pipe)
    /\ g' = "end"
    /\ UNCHANGED <<flags, hist, pc, options, f, sampleRate, bs, n, err, woff,
                   stream, streamCalls, streamSaw, panicVal, readsLeft>>

Next ==
    \/ FromFlags
    \/ ParseFile
    \/ GetStreamInfo
    \/ FileStream
    \/ MakePipe
    \/ StdinRead
    \/ PwWriteEnter
    \/ PwWriteAbort
    \/ GoStream
    \/ StreamRead
    \/ StreamReturn
    \/ DeferPwClose
    \/ DeferPrClose

Spec == Init /\ [][Next]_vars

SpecFlags == InitFlags /\ [][Next]_vars

SpecOutput == InitOutput /\ [][Next]_vars

TypeOK ==
    /\ pc \in Terminal \cup {"flags", "parseFile", "streamInfo", "fileStream",
                             "pipe", "read", "callWrite", "inWrite"}
    /\ g \in {"none", "spawned", "stream", "deferPw", "deferPr", "end"}
    /\ Len(options) <= 1 /\ Len(stream) <= 1
    /\ woff \in 0..BufSize
    /\ n \in 0..BufSize
    /\ err \in {"nil", "EOF", "error"}
    /\ f \in {"nil", "parsed"}
    /\ sampleRate \in SampleRates \cup {0}
    /\ readsLeft \in 0..(MaxReads + FlagReads)
    /\ pipe.done \in BOOLEAN

\* The Go scheduler runs every runnable goroutine: a step of main's
\* pw.Write and the deferred calls of the goroutine happen once they can.
\* Nothing is assumed of stdin or of Stream.
SpecFair ==
    /\ Spec
    /\ WF_vars(PwWriteEnter)
    /\ WF_vars(PwWriteAbort)
    /\ WF_vars(DeferPwClose)
    /\ WF_vars(DeferPrClose)

\* SpecFair, with what the termination of the stdin loop is conditional on:
\* every read of stdin returns, and after the reads that return data it
\* returns io.EOF or an error; the goroutine gets to call Stream; and
\* Stream, while it runs, goes on to read the pipe or returns.
SpecLive ==
    /\ SpecFair
    /\ WF_vars(StdinRead)
    /\ WF_vars(GoStream)
    /\ WF_vars(StreamRead \/ StreamReturn)

(***************************************************************************)
(* Vocabulary of the properties.                                           *)
(***************************************************************************)
StdinMode == filePath = ""

\* The Stream call of the goroutine has returned.
StreamReturned == g \in {"deferPw", "deferPr", "end"}

\* main is inside pw.Write, or about to enter it.
InWriteCall == pc \in {"callWrite", "inWrite"}

\* Bytes handed to the pipe that the reader has not taken.
Unread == Len(written) - Len(consumed)

IsPrefix(s, t) == Len(s) <= Len(t) /\ SubSeq(t, 1, Len(s)) = s

\* s is an optional sign followed by one or more decimal digits.
IsDecimal(s) ==
    LET d == IF s # <<>> /\ Head(s) \in {"+", "-"} THEN Tail(s) ELSE s
    IN  d # <<>> /\ \A i \in 1..Len(d) : d[i] \in Digits

\* s denotes a non-negative integer.
IsNonNegative(s) ==
    IsDecimal(s) /\ (Head(s) = "-" => \A i \in 2..Len(s) : s[i] = "0")

\* A flag that was given and is no decimal number.
ParseFails ==
    \/ maxAlts # <<>> /\ ~IsDecimal(maxAlts)
    \/ pFilter # <<>> /\ ~IsDecimal(pFilter)

(***************************************************************************)
(* Properties.                                                             *)
(***************************************************************************)
\* C1: in stdin mode the bytes written into the pipe are exactly the
\* concatenation of the n bytes each stdin read returned; stated whenever
\* every write started so far has completed.
C1_VerbatimForwarding ==
    (StdinMode /\ pc \in {"read", "done", "exitStdin"}) => written = fed

\* C2: in stdin mode, when stdin reached EOF the write side of the pipe has
\* been closed, so that the reader of the request body gets end-of-input.
C2_EofClosesWriter ==
    (StdinMode /\ pc = "done") => (pipe.done /\ pipe.werr = "EOF")

\* C3: in stdin mode the process does not end after stdin EOF while the
\* Stream call of the goroutine is still running.
C3_ExitAfterStream ==
    (StdinMode /\ pc = "done") => g # "stream"

\* C4: once Stream has returned, a pending or later pw.Write never completes
\* and never stays blocked: it ends with the closed-pipe error.
C4_WriteFailsAfterStreamReturn ==
    /\ [][(StreamReturned /\ InWriteCall)
            => (pc' \in {"callWrite", "inWrite", "panicWrite"}
                /\ consumed' = consumed)]_vars
    /\ (StreamReturned /\ InWriteCall)
          ~> (pc = "panicWrite" /\ panicVal = "ErrClosedPipe")

C4_Witness ==
    /\ pc = "panicWrite" /\ panicVal = "ErrClosedPipe"
    /\ StreamReturned
    /\ woff > 1
    /\ readsLeft > 0

\* C5: a stdin read error leaves both ends of the pipe closed when the
\* process ends.
C5_ReadErrorClosesBothEnds ==
    pc = "exitStdin" => (pipe.werr # "nil" /\ pipe.rerr # "nil")

\* C6: the bytes written and not yet read never exceed one chunk, they exist
\* only while main is inside (or was thrown out of) pw.Write, and main takes
\* no further stdin read while a write is pending.
C6_Backpressure ==
    /\ Unread <= BufSize
    /\ Unread > 0 => pc \in {"inWrite", "panicWrite"}
    /\ pc = "inWrite" => (woff > 0 /\ ~ENABLED StdinRead)

C6_Witness ==
    /\ pc = "inWrite" /\ g = "stream"
    /\ Unread = BufSize
    /\ Len(written) > BufSize

\* C7: the bytes the reader has taken from the pipe are a prefix of the
\* bytes the writer handed to it.
C7_UploadOrdering == IsPrefix(consumed, written)

C7_Witness ==
    /\ consumed # <<>>
    /\ Len(consumed) > BufSize
    /\ Len(consumed) < Len(written)
    /\ \E i \in 1..Len(consumed) : consumed[i] # consumed[1]

\* C8: a given max-alts or pfilter string that is no non-negative integer
\* (text that is no number, or a negative number) never yields a
\* configuration, and Stream is never called.
C8_InvalidOptionRejected ==
    (\/ maxAlts # <<>> /\ ~IsNonNegative(maxAlts)
     \/ pFilter # <<>> /\ ~IsNonNegative(pFilter))
        => (options = <<>> /\ streamCalls = 0)

C10_EmptyBodyCompletes ==
    (StdinMode /\ pc = "done" /\ fed = <<>>)
        => (consumed = <<>> /\ streamSaw = "EOF" /\ StreamReturned)

\* C11: Stream is called at most once in a run, with the configuration
\* fromFlags returned before the call; the configuration is built once and
\* never rebuilt, and once Stream was called it is never called again.
C11_NoRetry ==
    /\ [](streamCalls <= 1)
    /\ []((streamCalls = 1) <=> (stream # <<>>))
    /\ [](stream # <<>> => (options # <<>> /\ stream[1].opts = options[1]))
    /\ [][options # <<>> => options' = options]_vars
    /\ [][stream # <<>> => (stream' = stream /\ streamCalls' = streamCalls)]_vars

C11_Witness ==
    /\ streamCalls = 1
    /\ g = "end"
    /\ pc = "callWrite"

\* C12: the encoding of the configuration is Text when the -output flag is
\* exactly "json" and Binary for every other value, the empty one included;
\* Stream is called with that configuration.
C12_OutputEncoding ==
    /\ options # <<>> =>
          Encoding(options[1]) = (IF output = "json" THEN "Text" ELSE "Binary")
    /\ stream # <<>> =>
          Encoding(stream[1].opts) = (IF output = "json" THEN "Text" ELSE "Binary")

C12_Witness ==
    /\ output = "JSON"
    /\ stream # <<>>
    /\ Encoding(stream[1].opts) = "Binary"

\* C13: with a file, Stream is called only after goflac.ParseFile and
\* GetStreamInfo both succeeded, and with the sample rate of that file; when
\* either fails the process exits with status 1 and Stream is not called.
\* With stdin, Stream is called with the default sample rate.
C13_SampleRate ==
    /\ filePath # "" =>
          \/ pc \in {"flags", "panicFlags", "parseFile"} /\ streamCalls = 0
          \/ /\ pc = "exitParse" /\ f = "nil"
             /\ ExitStatus = 1 /\ streamCalls = 0
          \/ pc = "streamInfo" /\ f = "parsed" /\ streamCalls = 0
          \/ /\ pc = "exitInfo" /\ f = "parsed" /\ sampleRate = 0
             /\ ExitStatus = 1 /\ streamCalls = 0
          \/ /\ pc = "fileStream" /\ f = "parsed" /\ sampleRate \in SampleRates
             /\ streamCalls = 0
          \/ /\ pc = "done" /\ f = "parsed" /\ sampleRate \in SampleRates
             /\ streamCalls = 1
             /\ stream[1].body = "file" /\ stream[1].rate = sampleRate
    /\ (filePath = "" /\ stream # <<>>) =>
          (stream[1].body = "pr" /\ stream[1].rate = DefaultSampleRate)

C13_Witness ==
    /\ filePath # ""
    /\ pc = "done"
    /\ stream # <<>>
    /\ stream[1].rate = 44100

\* C15: every write to the pipe is as long as the buffer (BufSize standing
\* for 1024 bytes), whatever number of bytes the read before it returned:
\* each accepted pw.Write appends the whole of bs to the bytes written.
C15_FixedSizeWrites ==
    /\ [](Len(written) % BufSize = 0)
    /\ [][written' # written =>
            /\ pc = "callWrite" /\ n \in 1..BufSize
            /\ Len(written') = Len(written) + BufSize
            /\ written' = written \o bs]_vars

C15_Witness ==
    /\ pc = "inWrite"
    /\ n < BufSize
    /\ Len(written) = 2 * BufSize
    /\ Len(fed) < Len(written) - 1

\* Number of stdin reads that returned data so far, in a run of Spec.
DataReads == MaxReads - readsLeft

\* C16: a read that returns n > 0 bytes is followed by one write to the pipe
\* before the next read, also when the read returns io.EOF or another error
\* with the bytes; main leaves the loop by return only after a read of zero
\* bytes with io.EOF.
C16_NoFinalDataLost ==
    /\ [](pc = "read" => Len(written) = BufSize * DataReads)
    /\ [](pc = "callWrite" =>
            (n > 0 /\ Len(written) = BufSize * (DataReads - 1)))
    /\ [][(pc = "read" /\ readsLeft' # readsLeft) =>
            (n' > 0 /\ pc' = "callWrite")]_vars
    /\ [][(pc = "read" /\ pc' = "done") => (n' = 0 /\ err' = "EOF")]_vars
    /\ [][(pc' = "read" /\ pc # "read") => pc \in {"pipe", "inWrite"}]_vars

C16_Witness ==
    /\ pc = "read"
    /\ n > 0 /\ err = "EOF"
    /\ DataReads = 1
    /\ Len(written) = BufSize
    /\ consumed = written

\* C17: in stdin mode, with stdin that ends in io.EOF or an error and a
\* Stream that goes on reading the pipe or returns, main leaves the loop: the
\* process ends by return, by os.Exit(1) or by the panic on a failed write.
C17_LoopTerminates ==
    (StdinMode /\ pc \in {"read", "callWrite", "inWrite"})
        ~> (pc \in {"done", "exitStdin", "panicWrite"})

C17_Witness ==
    /\ pc = "done"
    /\ g = "stream"
    /\ Len(written) = MaxReads * BufSize
    /\ consumed = written

====
